---- MODULE Spec2Model ----
(***************************************************************************)
(* Assembly-line balancing: line_balancing_algorithm and                   *)
(* compute_positional_weights of src/line_balancing.py (and their twins   *)
(* in src/line.py).                                                        *)
(*                                                                         *)
(* Times are fixed-point numbers: one unit is 0.001 second, so 5005        *)
(* stands for 5.005 s and the code's literal 0.01 is 10 units.             *)
(* One step of the model is the set-up of the function (everything before *)
(* the while loop), one iteration of the while loop, or the metrics block  *)
(* after it.                                                               *)
(***************************************************************************)
EXTENDS Integers, Sequences, FiniteSets, TLC

VARIABLES
    tasks,          \* input: the task list (a sequence of ids, in input order)
    times,          \* input: dict id -> duration
    predecessors,   \* input: dict id -> predecessor ids
    cycle_time,     \* input
    heuristic,      \* input
    pc,             \* "start" | "loop" | "done" | "error"
    err,            \* the exception raised, "none" while there is none
    total_work,     \* local total_work
    min_stations,   \* local min_stations
    workstations,   \* dict station -> list of tasks (key created on first placement)
    st_times,       \* dict station -> cumulative time
    assigned,       \* set of placed tasks
    ws,             \* current station number
    pw,             \* positional weights (ranked_positional_weight only)
    metrics         \* the returned metrics record

vars == <<tasks, times, predecessors, cycle_time, heuristic, pc, err, total_work,
          min_stations, workstations, st_times, assigned, ws, pw, metrics>>

inputs == <<tasks, times, predecessors, cycle_time, heuristic>>

locals == <<total_work, min_stations, workstations, st_times, assigned, ws, pw, metrics>>

(***************************************************************************)
(* Bounds of the model.                                                    *)
(***************************************************************************)
\* the while loop may open stations without end; the model stops at this one
MaxStation == 5

\* most predecessors one task of a three-task input names
MaxPreds == 2

(***************************************************************************)
(* Program constants (in fixed-point units).                               *)
(***************************************************************************)
\* the literal 0.01 of the min_stations formula
Epsilon == 10

LTT == "longest_task_time"

RPW == "ranked_positional_weight"

(***************************************************************************)
(* Arithmetic helpers.                                                     *)
(***************************************************************************)
Max(a, b) == IF a >= b THEN a ELSE b

MinOf(S) == CHOOSE m \in S : \A n \in S : m <= n

\* Python's // on numbers of either sign: the floor of a / b (b # 0)
FloorDiv(a, b) == IF b > 0 THEN a \div b ELSE (-a) \div (-b)

RECURSIVE SumOver(_, _)
\* sum(f[x] for x in S)
SumOver(S, f) ==
    IF S = {} THEN 0
    ELSE LET x == CHOOSE y \in S : TRUE IN f[x] + SumOver(S \ {x}, f)

Ids(seq) == {seq[i] : i \in 1..Len(seq)}

(***************************************************************************)
(* The precedence graph G of compute_positional_weights: its nodes are the *)
(* listed tasks and every id named as a predecessor, with an edge p -> t   *)
(* for every p in predecessors[t].                                         *)
(***************************************************************************)
GraphNodes == Ids(tasks) \cup UNION {predecessors[t] : t \in DOMAIN predecessors}

\* G.predecessors(n)
GPredecessors(n) == IF n \in DOMAIN predecessors THEN predecessors[n] ELSE {}

\* G.successors(n)
GSuccessors(n) == {t \in DOMAIN predecessors : n \in predecessors[t]}

RECURSIVE Unsortable(_)
\* the nodes a topological sort cannot emit: what is left of `remaining` once
\* every node without a remaining predecessor has been removed, again and again
Unsortable(remaining) ==
    LET ready == {n \in remaining : GPredecessors(n) \cap remaining = {}}
    IN  IF ready = {} THEN remaining ELSE Unsortable(remaining \ ready)

\* nx.topological_sort raises NetworkXUnfeasible exactly on a graph with a cycle
HasCycle == Unsortable(GraphNodes) # {}

\* a predecessor id that is not in the task list
UnknownPreds == (UNION {predecessors[t] : t \in DOMAIN predecessors}) \ Ids(tasks)

RECURSIVE topological_sort(_)
\* list(nx.topological_sort(G)) for an acyclic G: every node after all of its
\* predecessors (which of the admissible orders the library yields does not
\* change any weight)
topological_sort(remaining) ==
    IF remaining = {} THEN <<>>
    ELSE LET n == CHOOSE m \in remaining : GPredecessors(m) \cap remaining = {}
         IN  <<n>> \o topological_sort(remaining \ {n})

\* the topological order used as it comes, without [::-1]
Reverse_omitted(s) == s

Reverse(s) == [i \in 1..Len(s) |-> s[Len(s) + 1 - i]]

\* the inner loop of compute_positional_weights for one node:
\*     for succ in G.successors(node): pw[node] += pw[succ]
AddSuccessors(acc, node) ==
    [acc EXCEPT ![node] = @ + SumOver(GSuccessors(node), acc)]

RECURSIVE Accumulate(_, _, _)
\* the outer loop `for node in topo`, from position i on
Accumulate(topo, i, acc) ==
    IF i > Len(topo) THEN acc
    ELSE Accumulate(topo, i + 1, AddSuccessors(acc, topo[i]))

\* compute_positional_weights(tasks, times, predecessors): the dict it returns,
\* or the exception it raises
compute_positional_weights ==
    IF HasCycle
    THEN [err |-> "NetworkXUnfeasible", pw |-> <<>>]
    ELSE IF UnknownPreds # {}
    THEN \* pw has no key for a node that is not a task, and such a node
         \* always has a successor: pw[node] += ... raises
         [err |-> "KeyError", pw |-> <<>>]
    ELSE [err |-> "none",
          pw  |-> Accumulate(Reverse(topological_sort(GraphNodes)), 1,
                             [t \in Ids(tasks) |-> times[t]])]

(***************************************************************************)
(* line_balancing_algorithm.                                               *)
(***************************************************************************)
\* min_stations = max(1, int((total_work + cycle_time - 0.01)//cycle_time)),
\* in exact fixed-point arithmetic (the binary floats of the code can round a
\* quotient that is a whole number, such as (10.01 + 10 - 0.01)/10, down by one)
MinStations(total, cycle) == Max(1, FloorDiv(total + cycle - Epsilon, cycle))

\* predecessors.get(t, [])
PredsOf(t) == IF t \in DOMAIN predecessors THEN predecessors[t] ELSE {}

\* eligible without the test of the predecessors
eligible_ignoring_predecessors(t) == t \notin assigned

\* eligible without the test `t not in assigned`
eligible_ignoring_assigned(t) == \A p \in PredsOf(t) : p \in assigned

\* eligible as of the opening of the current station: the tasks placed in the
\* current station do not release their successors
eligible_as_of_station_opening(t) ==
    /\ t \notin assigned
    /\ \A p \in PredsOf(t) :
          /\ p \in assigned
          /\ ws \in DOMAIN workstations => p \notin Ids(workstations[ws])

\* any(...) where the closure has all(...): one assigned predecessor is enough,
\* and a task without predecessors is never eligible
eligible_with_any_predecessor(t) ==
    /\ t \notin assigned
    /\ \E p \in PredsOf(t) : p \in assigned

\* the closure eligible(t)
eligible(t) == t \notin assigned /\ \A p \in PredsOf(t) : p \in assigned

\* the sort key of the chosen heuristic
Key(t) == IF heuristic = LTT THEN times[t] ELSE pw[t]

RemoveAt(s, i) == [j \in 1..(Len(s) - 1) |-> IF j < i THEN s[j] ELSE s[j + 1]]

MaxOf(S) == CHOOSE m \in S : \A n \in S : m >= n

RECURSIVE SortDesc_ascending(_)
\* the sort without reverse=True
SortDesc_ascending(s) ==
    IF s = <<>> THEN <<>>
    ELSE LET i == MinOf({j \in 1..Len(s) : \A k \in 1..Len(s) : Key(s[k]) >= Key(s[j])})
         IN  <<s[i]>> \o SortDesc_ascending(RemoveAt(s, i))

RECURSIVE SortDesc_reversing_ties(_)
\* descending, but equal keys come out in the reverse of their order in cand
\* (what sorting ascending and then reversing the list does)
SortDesc_reversing_ties(s) ==
    IF s = <<>> THEN <<>>
    ELSE LET i == MaxOf({j \in 1..Len(s) : \A k \in 1..Len(s) : Key(s[k]) <= Key(s[j])})
         IN  <<s[i]>> \o SortDesc_reversing_ties(RemoveAt(s, i))

RECURSIVE SortDesc(_)
\* cand.sort(key=..., reverse=True): descending by key, and stable, so equal keys
\* keep the order they have in cand
SortDesc(s) ==
    IF s = <<>> THEN <<>>
    ELSE LET i == MinOf({j \in 1..Len(s) : \A k \in 1..Len(s) : Key(s[k]) <= Key(s[j])})
         IN  <<s[i]>> \o SortDesc(RemoveAt(s, i))

\* cand = [t for t in tasks if eligible(t)], then sorted
Cand == SortDesc(SelectSeq(tasks, eligible))

\* the test of the scan without the time the station has accumulated
Fits_ignoring_station_time(t) == times[t] <= cycle_time

\* the test of the placement scan
Fits(t) == st_times[ws] + times[t] <= cycle_time

\* the scan stopping at the top candidate, whether it fits or not
FitIdx_top_candidate_only == {i \in 1..Len(Cand) : i = 1 /\ Fits(Cand[i])}

\* the positions of Cand the scan could place
FitIdx == {i \in 1..Len(Cand) : Fits(Cand[i])}

\* the loop condition len(assigned) < len(tasks)
Unfinished == Cardinality(assigned) < Len(tasks)

NoMetrics ==
    [total_work_content |-> 0, cycle_time |-> 0, min_stations |-> 0,
     actual_stations |-> 0, idle_time |-> 0, efficiency |-> <<0, 1>>,
     balance_delay |-> <<0, 1>>, station_times |-> <<>>]

Raise(e) == pc' = "error" /\ err' = e

(***************************************************************************)
(* The inputs the model runs the function on.  A task list holds up to     *)
(* three entries; the predecessor and duration dicts have one entry per    *)
(* listed id, as collect_data_from_user and main build them.               *)
(***************************************************************************)
TaskIds == {"a", "b", "c"}

\* an id that no task list holds
Unknown == "x"

\* lists of unique ids (up to renaming) and lists that repeat an id
GraphLists ==
    {<<>>, <<"a">>, <<"a", "b">>, <<"a", "b", "c">>, <<"a", "a">>, <<"a", "b", "a">>}

ShortLists == {<<>>, <<"a">>, <<"a", "b">>, <<"a", "a">>}

\* whole seconds: 3 s, 5 s, 8 s against a cycle time of 6 s or 10 s
WholeDurations == {3000, 5000, 8000}

WholeCycles == {6000, 10000}

\* negative, zero and fractional numbers
OddDurations == {-2000, 0, 5000, 5005}

OddCycles == {-1000, 0, 10000}

\* 1 s, 2 s, 3 s on three tasks against a cycle time of 6 s
SmallDurations == {1000, 2000, 3000}

SmallLists == {<<"a", "b", "c">>}

SmallCycles == {6000}

\* the predecessor dicts over the listed ids: each task names at most MaxPreds
\* ids, known or unknown, itself included only when self is TRUE
PredMaps(ids, self) ==
    {f \in [ids -> SUBSET (ids \cup {Unknown})] :
        \A t \in ids : /\ Cardinality(f[t]) <= MaxPreds
                       /\ (self \/ t \notin f[t])}

InitInputs(lists, durations, cycles, self) ==
    /\ tasks \in lists
    /\ predecessors \in PredMaps(Ids(tasks), self)
    /\ times \in [Ids(tasks) -> durations]
    /\ cycle_time \in cycles
    /\ heuristic \in {LTT, RPW}

Init ==
    /\ \/ InitInputs(GraphLists, WholeDurations, WholeCycles, FALSE)
       \/ InitInputs(ShortLists, OddDurations, OddCycles, TRUE)
       \/ InitInputs(SmallLists, SmallDurations, SmallCycles, FALSE)
    /\ pc = "start"
    /\ err = "none"
    /\ total_work = 0
    /\ min_stations = 0
    /\ workstations = <<>>
    /\ st_times = <<>>
    /\ assigned = {}
    /\ ws = 0
    /\ pw = <<>>
    /\ metrics = NoMetrics

(***************************************************************************)
(* Everything before the while loop.  followers is TRUE for src/line.py,   *)
(* which also builds the followers dict (followers[p].append(t) raises     *)
(* KeyError for a predecessor that is no task).                            *)
(***************************************************************************)
Setup(followers) ==
    /\ pc = "start"
    /\ total_work' = SumOver(DOMAIN times, times)
    /\ IF cycle_time = 0
       THEN \* the floor division of the min_stations formula
            /\ Raise("ZeroDivisionError")
            /\ UNCHANGED <<min_stations, workstations, st_times, assigned, ws, pw>>
       ELSE /\ min_stations' = MinStations(total_work', cycle_time)
            /\ workstations' = <<>>
            /\ st_times' = (1 :> 0)
            /\ assigned' = {}
            /\ ws' = 1
            /\ IF followers /\ UnknownPreds # {}
               THEN Raise("KeyError") /\ pw' = pw
               ELSE IF heuristic = RPW
               THEN LET r == compute_positional_weights
                    IN  IF r.err # "none"
                        THEN Raise(r.err) /\ pw' = pw
                        ELSE pw' = r.pw /\ pc' = "loop" /\ err' = err
               ELSE pw' = pw /\ pc' = "loop" /\ err' = err
    /\ UNCHANGED <<inputs, metrics>>

\* src/line_balancing.py
Start == Setup(FALSE)

\* src/line.py
Start_line == Setup(TRUE)

(***************************************************************************)
(* One iteration of `while len(assigned) < len(tasks)`.                    *)
(***************************************************************************)
\* the iteration without `if not cand: raise`: the scan of the empty list
\* places nothing and a station is opened
NoEligible_opening_a_station ==
    /\ pc = "loop"
    /\ Unfinished
    /\ Cand = <<>>
    /\ ws < MaxStation
    /\ ws' = ws + 1
    /\ st_times' = st_times @@ (ws + 1 :> 0)
    /\ UNCHANGED <<inputs, pc, err, total_work, min_stations, workstations,
                   assigned, pw, metrics>>

\* `if not cand: raise ValueError(...)`
NoEligible ==
    /\ pc = "loop"
    /\ Unfinished
    /\ Cand = <<>>
    /\ Raise("ValueError")
    /\ UNCHANGED <<inputs, locals>>

\* the placement without `st_times[ws] += times[t]`
Place_without_accumulating ==
    /\ pc = "loop"
    /\ Unfinished
    /\ FitIdx # {}
    /\ LET t == Cand[MinOf(FitIdx)]
       IN  /\ workstations' =
                IF ws \in DOMAIN workstations
                THEN [workstations EXCEPT ![ws] = Append(@, t)]
                ELSE workstations @@ (ws :> <<t>>)
           /\ assigned' = assigned \cup {t}
    /\ UNCHANGED <<inputs, pc, err, total_work, min_stations, ws, pw, metrics, st_times>>

\* the scan places the first candidate that fits, and breaks
Place ==
    /\ pc = "loop"
    /\ Unfinished
    /\ FitIdx # {}
    /\ LET t == Cand[MinOf(FitIdx)]
       IN  /\ workstations' =
                IF ws \in DOMAIN workstations
                THEN [workstations EXCEPT ![ws] = Append(@, t)]
                ELSE workstations @@ (ws :> <<t>>)
           /\ st_times' = [st_times EXCEPT ![ws] = @ + times[t]]
           /\ assigned' = assigned \cup {t}
    /\ UNCHANGED <<inputs, pc, err, total_work, min_stations, ws, pw, metrics>>

\* `if not placed:` a new station is opened
OpenStation ==
    /\ pc = "loop"
    /\ Unfinished
    /\ Cand # <<>>
    /\ FitIdx = {}
    /\ ws < MaxStation
    /\ ws' = ws + 1
    /\ st_times' = st_times @@ (ws + 1 :> 0)
    /\ UNCHANGED <<inputs, pc, err, total_work, min_stations, workstations,
                   assigned, pw, metrics>>

(***************************************************************************)
(* After the loop: the metrics and the return.  Ratios are kept exact, as  *)
(* <<numerator, denominator>>.                                             *)
(***************************************************************************)
Finish ==
    /\ pc = "loop"
    /\ ~Unfinished
    /\ LET actual == Cardinality(DOMAIN workstations)
           idle   == SumOver(DOMAIN st_times,
                             [s \in DOMAIN st_times |-> cycle_time - st_times[s]])
       IN  IF actual * cycle_time = 0
           THEN \* eff = total_work / (len(workstations) * cycle_time) * 100
                Raise("ZeroDivisionError") /\ metrics' = metrics
           ELSE /\ metrics' =
                     [total_work_content |-> total_work,
                      cycle_time         |-> cycle_time,
                      min_stations       |-> min_stations,
                      actual_stations    |-> actual,
                      idle_time          |-> idle,
                      efficiency         |-> <<total_work * 100, actual * cycle_time>>,
                      balance_delay      |-> <<100 * actual * cycle_time - total_work * 100,
                                               actual * cycle_time>>,
                      station_times      |-> st_times]
                /\ pc' = "done"
                /\ err' = err
    /\ UNCHANGED <<inputs, total_work, min_stations, workstations, st_times,
                   assigned, ws, pw>>

Next == Start \/ Start_line \/ NoEligible \/ Place \/ OpenStation \/ Finish

Spec == Init /\ [][Next]_vars

(***************************************************************************)
(* Vocabulary of the properties.                                           *)
(***************************************************************************)
UniqueIds == Cardinality(Ids(tasks)) = Len(tasks)

PositiveDurations == \A t \in DOMAIN times : times[t] > 0

\* unique ids, positive durations, positive cycle time, acyclic, known predecessors
ValidInput ==
    /\ UniqueIds
    /\ PositiveDurations
    /\ cycle_time > 0
    /\ ~HasCycle
    /\ UnknownPreds = {}

Terminated == pc \in {"done", "error"}

InLoop == pc = "loop"

\* the tasks held by the stations
Placed == UNION {Ids(workstations[s]) : s \in DOMAIN workstations}

StationOf(t) == CHOOSE s \in DOMAIN workstations : t \in Ids(workstations[s])

PositionOf(t) ==
    LET l == workstations[StationOf(t)] IN MinOf({i \in 1..Len(l) : l[i] = t})

RECURSIVE Reach(_)
\* the tasks reachable from the set S along successor edges, S included
Reach(S) ==
    LET more == S \cup UNION {GSuccessors(n) : n \in S}
    IN  IF more = S THEN S ELSE Reach(more)

\* the transitive successors of t
Descendants(t) == Reach(GSuccessors(t))

\* ceil(a / b) for b > 0
CeilDiv(a, b) == -((-a) \div b)

(***************************************************************************)
(* C1.  A run on an input with unique ids, positive durations, a positive  *)
(* cycle time and an acyclic predecessor map over known tasks ends.        *)
(* An iteration of the loop reads only assigned and st_times[ws]; one that *)
(* starts with nothing accumulated in the current station and with         *)
(* candidates of which none fits leaves assigned alone and opens another   *)
(* station with nothing accumulated, so it repeats for ever.  The run ends *)
(* exactly when no such iteration is reached: every iteration places a     *)
(* task, raises, or closes a station that has accumulated time.            *)
(***************************************************************************)
C1_RunEnds ==
    (ValidInput /\ InLoop /\ Unfinished /\ Cand # <<>> /\ FitIdx = {})
        => st_times[ws] > 0

\* what the code does guarantee: the same on the inputs in which no task is
\* longer than the cycle time
NoTaskExceedsCycle == \A t \in DOMAIN times : times[t] <= cycle_time

RunEndsWhenTasksFitCycle == NoTaskExceedsCycle => C1_RunEnds

(***************************************************************************)
(* C2.  Capacity: in every state of the allocation loop and in the         *)
(* returned metrics, no station's cumulative time exceeds cycle_time.      *)
(***************************************************************************)
C2_Capacity ==
    /\ (InLoop /\ Unfinished) => \A s \in DOMAIN st_times : st_times[s] <= cycle_time
    /\ pc = "done" =>
          \A s \in DOMAIN metrics.station_times :
              metrics.station_times[s] <= metrics.cycle_time

\* the capacity invariant on the inputs whose cycle time is not negative
CapacityWhenCycleNotNegative == cycle_time >= 0 => C2_Capacity

(***************************************************************************)
(* C3.  Precedence: every predecessor of an assigned task is assigned, in  *)
(* the same or an earlier station, and earlier in the task sequence when   *)
(* the station is the same.                                                *)
(***************************************************************************)
C3_Precedence ==
    \A t \in assigned : \A p \in PredsOf(t) :
        /\ p \in assigned
        /\ p \in Placed /\ t \in Placed
        /\ StationOf(p) <= StationOf(t)
        /\ StationOf(p) = StationOf(t) => PositionOf(p) < PositionOf(t)

\* a finished run with a predecessor in its successor's station and another
\* in an earlier station than its successor
C3_Witness ==
    /\ pc = "done"
    /\ \E t \in assigned : \E p \in PredsOf(t) : StationOf(p) = StationOf(t)
    /\ \E t \in assigned : \E p \in PredsOf(t) : StationOf(p) < StationOf(t)

(***************************************************************************)
(* C4.  Partition: no task is ever held twice, by two stations or by one,  *)
(* and when the function returns the stations hold exactly the input       *)
(* tasks.                                                                  *)
(***************************************************************************)
C4_Partition ==
    /\ \A s1, s2 \in DOMAIN workstations :
          \A i \in 1..Len(workstations[s1]) : \A j \in 1..Len(workstations[s2]) :
              workstations[s1][i] = workstations[s2][j] => (s1 = s2 /\ i = j)
    /\ Placed = assigned
    /\ pc = "done" => Placed = Ids(tasks)

\* a returned assignment of three tasks over more than one station
C4_Witness ==
    /\ pc = "done"
    /\ ValidInput
    /\ Len(tasks) = 3
    /\ Cardinality(DOMAIN workstations) >= 2
    /\ \E s \in DOMAIN workstations : Len(workstations[s]) >= 2

(***************************************************************************)
(* C5.  A predecessor id that is not in the task list: no task has been    *)
(* placed when the error is raised.                                        *)
(***************************************************************************)
C5_UnknownPredecessorRejected ==
    (UnknownPreds # {} /\ pc = "error") => assigned = {}

(***************************************************************************)
(* C6.  A cycle in the predecessor relation: no task has been placed when  *)
(* the error is raised.                                                    *)
(***************************************************************************)
C6_CycleRejected ==
    (HasCycle /\ pc = "error") => assigned = {}

(***************************************************************************)
(* C7.  A non-positive cycle time, a non-positive duration or a duplicate  *)
(* id: the run places no task and returns no assignment.                   *)
(***************************************************************************)
MalformedNumbers == cycle_time <= 0 \/ ~PositiveDurations \/ ~UniqueIds

C7_MalformedInputRejected ==
    MalformedNumbers => (assigned = {} /\ pc # "done")

(***************************************************************************)
(* C8.  Lower bound: a returned metrics record has                         *)
(* actual_stations >= min_stations.                                        *)
(***************************************************************************)
C8_LowerBound ==
    pc = "done" => metrics.actual_stations >= metrics.min_stations

\* the lower bound on the inputs whose cycle time is positive
LowerBoundWhenCyclePositive == cycle_time > 0 => C8_LowerBound

(***************************************************************************)
(* C9.  Positional weight: the weight of a task is its own duration plus   *)
(* the durations of its transitive successors, each counted once.          *)
(***************************************************************************)
C9_WeightCountsEachDescendantOnce ==
    (pc \in {"loop", "done"} /\ heuristic = RPW) =>
        \A t \in Ids(tasks) : pw[t] = times[t] + SumOver(Descendants(t), times)

(***************************************************************************)
(* C10.  min_stations is ceil(total_work / cycle_time) for positive total  *)
(* work and positive cycle time, in multiples of 0.001.                    *)
(***************************************************************************)
C10_MinStationsIsCeiling ==
    (pc \in {"loop", "done"} /\ total_work > 0 /\ cycle_time > 0) =>
        min_stations = CeilDiv(total_work, cycle_time)

(***************************************************************************)
(* C11.  At return the assignment's stations are 1..actual_stations, each  *)
(* holds a task, station_times has the same stations and holds for each    *)
(* the sum of its tasks' durations, and actual_stations is the number of   *)
(* stations opened.                                                        *)
(***************************************************************************)
\* the sum of the durations of the tasks of the list l
ListTime(l) == SumOver(1..Len(l), [i \in 1..Len(l) |-> times[l[i]]])

C11_StationsContiguous ==
    pc = "done" =>
        /\ DOMAIN workstations = 1..metrics.actual_stations
        /\ \A s \in DOMAIN workstations : Len(workstations[s]) >= 1
        /\ DOMAIN metrics.station_times = DOMAIN workstations
        /\ \A s \in DOMAIN workstations :
              metrics.station_times[s] = ListTime(workstations[s])
        /\ metrics.actual_stations = ws

\* a returned assignment over two stations or more, one of them with two tasks
C11_Witness ==
    /\ pc = "done"
    /\ metrics.actual_stations >= 2
    /\ \E s \in DOMAIN workstations : Len(workstations[s]) >= 2

(***************************************************************************)
(* C12.  The metrics block never raises: from a state of the loop in which *)
(* every task of the list has a station (the empty list included), the     *)
(* next step returns the metrics.                                          *)
(***************************************************************************)
C12_MetricsNeverRaise ==
    [][(InLoop /\ ~Unfinished) => pc' = "done"]_vars

(***************************************************************************)
(* C13.  From a state of the loop with tasks left and no eligible task the *)
(* next step raises: no station is opened, no task placed, no metrics      *)
(* returned, and nothing follows the error.                                *)
(***************************************************************************)
\* the unassigned tasks all of whose predecessors are assigned
EligibleNow == {t \in Ids(tasks) : t \notin assigned /\ PredsOf(t) \subseteq assigned}

C13_NoEligibleAborts ==
    [][/\ (InLoop /\ Unfinished /\ EligibleNow = {}) =>
              /\ pc' = "error"
              /\ err' = "ValueError"
              /\ <<workstations, st_times, ws, assigned, metrics>>' =
                     <<workstations, st_times, ws, assigned, metrics>>
       /\ pc # "error"]_vars

\* the error raised after a task has been placed
C13_Witness ==
    /\ pc = "error"
    /\ err = "ValueError"
    /\ Unfinished
    /\ EligibleNow = {}
    /\ assigned # {}

(***************************************************************************)
(* C14.  The scenario A (8 s), B (5 s, after A), cycle time 10 s, longest  *)
(* task time: the run raises nothing and returns station 1 = [A],          *)
(* station 2 = [B], min_stations 2, actual_stations 2, idle_time 7 and     *)
(* efficiency 65.                                                          *)
(***************************************************************************)
Scenario ==
    /\ tasks = <<"a", "b">>
    /\ times = [t \in {"a", "b"} |-> IF t = "a" THEN 8000 ELSE 5000]
    /\ predecessors = [t \in {"a", "b"} |-> IF t = "a" THEN {} ELSE {"a"}]
    /\ cycle_time = 10000
    /\ heuristic = LTT

C14_Scenario ==
    Scenario =>
        /\ pc # "error"
        /\ ws <= 2
        /\ pc = "done" =>
              /\ workstations = <<<<"a">>, <<"b">>>>
              /\ metrics.min_stations = 2
              /\ metrics.actual_stations = 2
              /\ metrics.idle_time = 7000
              /\ metrics.efficiency[1] = 65 * metrics.efficiency[2]

C14_Witness == Scenario /\ pc = "done"

(***************************************************************************)
(* C16.  Placement rule: a step that places places exactly one task, at    *)
(* the end of the current station; the task is eligible, fits, and no      *)
(* eligible task that fits has a strictly larger heuristic key.            *)
(***************************************************************************)
\* t added to the time of the current station stays within the cycle time
FitsNow(t) == st_times[ws] + times[t] <= cycle_time

\* the task list of station n, empty while the station holds none
StationList(w, n) == IF n \in DOMAIN w THEN w[n] ELSE <<>>

C16_PlacementRule ==
    [][(assigned' # assigned \/ workstations' # workstations) =>
          \E t \in EligibleNow :
              /\ assigned' = assigned \cup {t}
              /\ FitsNow(t)
              /\ DOMAIN workstations' = DOMAIN workstations \cup {ws}
              /\ workstations'[ws] = Append(StationList(workstations, ws), t)
              /\ \A n \in DOMAIN workstations \ {ws} : workstations'[n] = workstations[n]
              /\ \A u \in EligibleNow : FitsNow(u) => Key(u) <= Key(t)]_vars

\* a returned assignment whose station 1 starts with two tasks that were both
\* eligible and fitting from the start, the one with the larger key first
C16_Witness ==
    /\ pc = "done"
    /\ ValidInput
    /\ Len(StationList(workstations, 1)) >= 2
    /\ LET t == workstations[1][1]
           u == workstations[1][2]
       IN  PredsOf(t) = {} /\ PredsOf(u) = {} /\ Key(t) > Key(u)

(***************************************************************************)
(* C17.  The station number never decreases; it grows by one, and only in  *)
(* a state of the loop where no eligible task fits the current station;    *)
(* tasks are only appended to the current station, so a station that has   *)
(* been left never changes.                                                *)
(***************************************************************************)
C17_StationOrder ==
    [][pc # "start" =>
          /\ ws' >= ws
          /\ ws' # ws =>
                /\ ws' = ws + 1
                /\ InLoop /\ Unfinished
                /\ \A t \in EligibleNow : ~FitsNow(t)
                /\ workstations' = workstations
          /\ DOMAIN workstations \subseteq DOMAIN workstations'
          /\ DOMAIN workstations' \subseteq 1..ws
          /\ \A n \in DOMAIN workstations :
                /\ n # ws => workstations'[n] = workstations[n]
                /\ Len(workstations'[n]) >= Len(workstations[n])
                /\ SubSeq(workstations'[n], 1, Len(workstations[n])) = workstations[n]]_vars

\* station 1 was left with room to spare, and station 2 has received a task
C17_Witness ==
    /\ pc \in {"loop", "done"}
    /\ ValidInput
    /\ ws >= 2
    /\ st_times[1] < cycle_time
    /\ 1 \in DOMAIN workstations
    /\ 2 \in DOMAIN workstations

(***************************************************************************)
(* C18.  Tie-break: the candidates of one key are ranked as the input task *)
(* list has them, and the task a step places comes no later in the input   *)
(* list than any other eligible task of the same key that fits.            *)
(***************************************************************************)
\* the position of t in the input task list
InputPos(t) == MinOf({i \in 1..Len(tasks) : tasks[i] = t})

C18_TieBreak ==
    [][(InLoop /\ Unfinished) =>
          /\ \A k \in {Key(t) : t \in EligibleNow} :
                LET RankedWithKey(t) == Key(t) = k
                    EligibleWithKey(t) == t \in EligibleNow /\ Key(t) = k
                IN  SelectSeq(Cand, RankedWithKey) = SelectSeq(tasks, EligibleWithKey)
          /\ \A t \in assigned' \ assigned : \A u \in EligibleNow :
                (FitsNow(u) /\ Key(u) = Key(t)) => InputPos(t) <= InputPos(u)]_vars

\* a returned assignment whose station 1 starts with two different tasks of
\* equal key, both eligible from the start, in input order
C18_Witness ==
    /\ pc = "done"
    /\ ValidInput
    /\ Len(StationList(workstations, 1)) >= 2
    /\ LET t == workstations[1][1]
           u == workstations[1][2]
       IN  /\ PredsOf(t) = {} /\ PredsOf(u) = {}
           /\ Key(t) = Key(u)
           /\ InputPos(t) < InputPos(u)

(***************************************************************************)
(* C19.  Re-scan: the candidates of every iteration are exactly the tasks  *)
(* that are unassigned and have all their predecessors assigned in the     *)
(* state of that iteration, and the task placed is one of them; so a task  *)
(* released by the previous placement can follow its predecessor in the    *)
(* same station, ahead of a lower-ranked task that was eligible before.    *)
(***************************************************************************)
C19_Rescan ==
    [][(InLoop /\ Unfinished) =>
          /\ Ids(Cand) = EligibleNow
          /\ (assigned' \ assigned) \subseteq EligibleNow]_vars

\* a returned assignment in which t follows its predecessor p in p's station
\* while c, eligible from the start and of smaller key than t, comes after t
C19_Witness ==
    /\ pc = "done"
    /\ \E n \in DOMAIN workstations : \E i \in 1..(Len(workstations[n]) - 1) :
          LET p == workstations[n][i]
              t == workstations[n][i + 1]
          IN  /\ p \in PredsOf(t)
              /\ \E c \in Ids(tasks) :
                    /\ PredsOf(c) = {}
                    /\ Key(c) < Key(t)
                    /\ \/ StationOf(c) > n
                       \/ StationOf(c) = n /\ PositionOf(c) > i + 1

(***************************************************************************)
(* C20.  compute_positional_weights visits every successor of a task       *)
(* before the task, and the weight of a task is its own duration plus the  *)
(* weights of its direct successors; the chain a -> b -> c with durations  *)
(* 1, 2, 3 gets pw(c) = 3, pw(b) = 5, pw(a) = 6.                           *)
(***************************************************************************)
\* the order in which compute_positional_weights visits the nodes
VisitOrder == Reverse(topological_sort(GraphNodes))

Chain ==
    /\ tasks = <<"a", "b", "c">>
    /\ times = [t \in TaskIds |-> IF t = "a" THEN 1000 ELSE IF t = "b" THEN 2000 ELSE 3000]
    /\ predecessors =
          [t \in TaskIds |-> IF t = "a" THEN {} ELSE IF t = "b" THEN {"a"} ELSE {"b"}]

C20_WeightIsOwnPlusSuccessors ==
    (pc \in {"loop", "done"} /\ heuristic = RPW) =>
        /\ \A i, j \in 1..Len(VisitOrder) :
              VisitOrder[j] \in GSuccessors(VisitOrder[i]) => j < i
        /\ \A t \in Ids(tasks) : pw[t] = times[t] + SumOver(GSuccessors(t), pw)
        /\ Chain => (pw["c"] = 3000 /\ pw["b"] = 5000 /\ pw["a"] = 6000)

\* the weights of the chain have been computed
C20_Witness == Chain /\ heuristic = RPW /\ pc = "loop"

(***************************************************************************)
(* C21.  On an input with unique task ids and an acyclic predecessor map   *)
(* that only names known tasks, the "no eligible tasks" error is never     *)
(* raised: in every reachable state with unassigned tasks remaining, at    *)
(* least one unassigned task has all of its predecessors assigned.         *)
(***************************************************************************)
WellFormedPrecedence == UniqueIds /\ ~HasCycle /\ UnknownPreds = {}

C21_NoEligibleUnreachable ==
    WellFormedPrecedence =>
        /\ err # "ValueError"
        /\ Unfinished => EligibleNow # {}

\* in the loop of a well-formed input, after a placement, with a task that is
\* still waiting for a predecessor beside the eligible one
C21_Witness ==
    /\ WellFormedPrecedence
    /\ InLoop /\ Unfinished
    /\ assigned # {}
    /\ \E t \in Ids(tasks) \ assigned : t \notin EligibleNow

(***************************************************************************)
(* C22.  A returned metrics record is consistent: idle_time equals         *)
(* actual_stations * cycle_time - total_work_content and is not negative,  *)
(* so total_work_content <= actual_stations * cycle_time, efficiency is at *)
(* most 100 and balance_delay is at least 0.                               *)
(***************************************************************************)
\* the quotient q[1] / q[2] is at most n, whatever the sign of the divisor
AtMost(q, n) == IF q[2] > 0 THEN q[1] <= n * q[2] ELSE q[1] >= n * q[2]

\* the quotient q[1] / q[2] is at least n
AtLeast(q, n) == IF q[2] > 0 THEN q[1] >= n * q[2] ELSE q[1] <= n * q[2]

C22_MetricsConsistent ==
    pc = "done" =>
        /\ metrics.idle_time =
              metrics.actual_stations * metrics.cycle_time - metrics.total_work_content
        /\ metrics.idle_time >= 0
        /\ metrics.total_work_content <= metrics.actual_stations * metrics.cycle_time
        /\ AtMost(metrics.efficiency, 100)
        /\ AtLeast(metrics.balance_delay, 0)

\* the same on the inputs whose cycle time is positive (in exact arithmetic:
\* the source sums floats, total_work in dict order and a station's time in
\* placement order, and the two sums can differ in the last bit)
MetricsConsistentWhenCyclePositive == cycle_time > 0 => C22_MetricsConsistent

====
